---- MODULE Spec2Model ----
(***************************************************************************)
(* JSONL export/import of the jfp prompt store                            *)
(* (crates/jfp/src/storage/jsonl.rs).                                      *)
(*                                                                         *)
(* export_jsonl: list_prompts, write header + one line per prompt to a     *)
(* temp file through a BufWriter, flush, sync_all, rename over the         *)
(* destination, set the data_version marker.                               *)
(* import_jsonl: scan the file line by line, classify the first non-blank  *)
(* line, decode the others as prompts, bulk_upsert_prompts, set the marker.*)
(*                                                                         *)
(* The Database (Record Store) and the Prompt type are not part of the     *)
(* files modelled here; they are modelled from their documented contract.  *)
(***************************************************************************)
EXTENDS Integers, Sequences, FiniteSets, TLC

VARIABLES
    windows,   \* the build target: TRUE for cfg(windows)
    db,        \* the Database the caller passes: [prompts, meta]
    fs,        \* the two paths of the filesystem: [dest, temp]
    pc,        \* per process: position in export_jsonl / import_jsonl
    cl,        \* per process: the locals of the running call (and its record)
    calls,     \* calls started so far; also the reading of Utc::now()
    lastExp,   \* record of the last export that returned Ok
    upd        \* the update command: its inputs and the locals of run()

vars == <<windows, db, fs, pc, cl, calls, lastExp, upd>>

\* ------------------------------------------------------------------ bounds
MaxCalls == 2
MaxLines == 3
\* dot-separated parts of a version string
MaxParts == 3

\* The processes that call into the module.
Procs == {"main", "other"}

\* ------------------------------------------------------------------ prompts
\* An Option<String> is <<>> (None) or <<s>> (Some(s)).
PA  == [id |-> "a", title |-> "A", content |-> "x",
        description |-> <<>>, category |-> <<>>, tags |-> <<>>]
PA2 == [id |-> "a", title |-> "A2", content |-> "mentions _meta",
        description |-> <<"d">>, category |-> <<>>, tags |-> <<"t1", "t2">>]
PB  == [id |-> "b", title |-> "B", content |-> "y",
        description |-> <<>>, category |-> <<"c">>, tags |-> <<"t2">>]
Prompts == {PA, PA2, PB}

\* The strings of the universe whose text contains the substring _meta.
MetaText == {"_meta", "mentions _meta"}

SCHEMA_VERSION == 1

\* ------------------------------------------------------------------ lines
\* A line of a file: whitespace only, text that is not JSON, or a JSON object
\* given by its top-level keys.
Blank   == [k |-> "blank"]
Garbage == [k |-> "text"]
Json(o) == [k |-> "json", o |-> o]

JNull   == [t |-> "null"]
JStr(s) == [t |-> "str", s |-> s]
OptToJson(v) == IF v = <<>> THEN JNull ELSE JStr(v[1])
JsonToOpt(j) == IF j = JNull THEN <<>> ELSE <<j.s>>

\* serde_json::to_writer(&mut writer, prompt)
SerializePrompt(p) ==
    Json([id |-> p.id, title |-> p.title, content |-> p.content,
          description |-> OptToJson(p.description),
          category |-> OptToJson(p.category),
          tags |-> p.tags])

\* serde_json::to_writer(&mut writer, &meta)
SerializeMeta(version, count, at) ==
    Json("_meta" :> [version |-> version, count |-> count,
                     exported_at |-> at, schema_version |-> SCHEMA_VERSION])

PromptKeys == {"id", "title", "content", "tags"}
MetaKeys   == {"version", "count", "exported_at", "schema_version"}

\* serde_json::from_str::<Value>(trimmed) succeeds
IsJson(line) == line.k = "json"

\* parsed_first_line.get("_meta").is_some()
HasMetaKeySubstring(line) ==
    /\ line.k = "json"
    /\ \/ "_meta" \in DOMAIN line.o
       \/ \E key \in DOMAIN line.o \cap {"id", "title", "content"} :
              line.o[key] \in MetaText
HasMetaKey(line) == line.k = "json" /\ "_meta" \in DOMAIN line.o

\* serde_json::from_value::<JsonlMeta>(parsed_first_line) succeeds
MetaDecodes(line) ==
    /\ line.k = "json"
    /\ "_meta" \in DOMAIN line.o
    /\ MetaKeys \subseteq DOMAIN line.o["_meta"]

\* serde_json::from_str::<Prompt>(trimmed) succeeds; unknown keys are ignored,
\* a missing Option field is None.
PromptDecodes(line) == line.k = "json" /\ PromptKeys \subseteq DOMAIN line.o
OptField(o, key) == IF key \in DOMAIN o THEN JsonToOpt(o[key]) ELSE <<>>
DecodePrompt(line) ==
    [id |-> line.o["id"], title |-> line.o["title"], content |-> line.o["content"],
     description |-> OptField(line.o, "description"),
     category |-> OptField(line.o, "category"),
     tags |-> line.o["tags"]]

\* ------------------------------------------------------------------ store
\* prompts: the rows in enumeration order, ids unique; meta: the value of the
\* data_version key, 0 when the key is unset.
Ids(ps) == {ps[i].id : i \in 1..Len(ps)}
AsSet(ps) == {ps[i] : i \in 1..Len(ps)}
UniqueIds(ps) == \A i, j \in 1..Len(ps) : ps[i].id = ps[j].id => i = j

EmptyStore == [prompts |-> <<>>, meta |-> 0]

\* db.list_prompts()
ListPrompts(store) == store.prompts

\* One upsert by id: overwrite the row with that id, or add a row.
UpsertOne(ps, p) ==
    IF p.id \in Ids(ps)
    THEN [i \in 1..Len(ps) |-> IF ps[i].id = p.id THEN p ELSE ps[i]]
    ELSE Append(ps, p)

RECURSIVE UpsertAll(_, _)
UpsertAll(ps, recs) ==
    IF recs = <<>> THEN ps
    ELSE UpsertAll(UpsertOne(ps, Head(recs)), Tail(recs))

\* db.bulk_upsert_prompts(&prompts): one transaction, committed
BulkUpsert(store, recs) == [store EXCEPT !.prompts = UpsertAll(store.prompts, recs)]

\* db.get_meta("data_version"): Err when the key is unset or the store fails
GetMetaOk(store, fail) == ~fail /\ store.meta # 0

\* db.set_meta("data_version", now)
SetMeta(store, now) == [store EXCEPT !.meta = now]

\* get_data_version(db)
GetDataVersion(store, fail, now) ==
    IF GetMetaOk(store, fail) THEN store.meta ELSE now

\* ------------------------------------------------------------------ files
NoFile == [exists |-> FALSE, lines |-> <<>>]
FileOf(lines) == [exists |-> TRUE, lines |-> lines]

\* What a hole left by a write past the end of a file reads as.
Hole == Garbage

RECURSIVE Holes(_)
Holes(n) == IF n <= 0 THEN <<>> ELSE <<Hole>> \o Holes(n - 1)

\* write(2) of data at offset off of a file holding lines
WriteAt(lines, off, data) ==
    IF off >= Len(lines)
    THEN lines \o Holes(off - Len(lines)) \o data
    ELSE SubSeq(lines, 1, off) \o data
         \o SubSeq(lines, off + Len(data) + 1, Len(lines))

\* A File handle: the path its inode is linked at ("none": no handle,
\* "orphan": the inode was unlinked) and its offset.
NoHandle == [at |-> "none", off |-> 0]

\* The filesystem after writing data through handle h.
FsWrite(f, h, data) ==
    IF h.at \in {"temp", "dest"} /\ data # <<>>
    THEN [f EXCEPT ![h.at] = FileOf(WriteAt(f[h.at].lines, h.off, data))]
    ELSE f

\* ------------------------------------------------------------------ calls
NoRes == [st |-> "none", n |-> 0, cause |-> "none", line |-> 0]
Ok(n) == [st |-> "ok", n |-> n, cause |-> "none", line |-> 0]
Err(cause, line) == [st |-> "err", n |-> 0, cause |-> cause, line |-> line]

NoCall ==
    [op |-> "none", prompts |-> <<>>, count |-> 0,
     header |-> Blank, hasHeader |-> FALSE, written |-> 0,
     buf |-> <<>>, h |-> NoHandle,
     file |-> <<>>, sawHeader |-> FALSE,
     dest0 |-> NoFile, temp0 |-> NoFile, db0 |-> EmptyStore,
     res |-> NoRes, fault |-> FALSE, swallowed |-> FALSE,
     metaWrites |-> 0, upserts |-> 0, primary |-> FALSE, orderOk |-> TRUE]

Now == calls

\* The complete file an export call writes: header, then one line per prompt.
ExportFile(c) ==
    <<c.header>> \o [i \in 1..Len(c.prompts) |-> SerializePrompt(c.prompts[i])]

\* ------------------------------------------------------------------ steps
Others(p) == Procs \ {p}
Running(p) == pc[p] \notin {"idle", "done", "crashed"}

\* The call of process p returns Err: an early return through `?`.
Return(p, c, res) ==
    /\ pc' = [pc EXCEPT ![p] = "done"]
    /\ cl' = [cl EXCEPT ![p] = [c EXCEPT !.res = res, !.h = NoHandle, !.buf = <<>>]]

\* An injected failure of a filesystem or store call.
Fail(p, cause) == Return(p, [cl[p] EXCEPT !.fault = TRUE], Err(cause, 0))

\* An early return while the BufWriter is alive: its Drop tries to flush the
\* buffer and ignores the outcome.
FailInWriter(p) ==
    /\ Fail(p, "fs")
    /\ \E dropFlushed \in BOOLEAN :
           fs' = IF dropFlushed THEN FsWrite(fs, cl[p].h, cl[p].buf) ELSE fs

\* export_jsonl is called; fs::create_dir_all(parent)?
ExportBegin(p) ==
    /\ pc[p] = "idle"
    /\ calls < MaxCalls
    /\ calls' = calls + 1
    /\ LET c == [NoCall EXCEPT !.op = "export", !.dest0 = fs.dest,
                            !.temp0 = fs.temp, !.db0 = db]
       IN  \E fail \in BOOLEAN :
              IF fail
              THEN Return(p, [c EXCEPT !.fault = TRUE], Err("fs", 0))
              ELSE /\ pc' = [pc EXCEPT ![p] = "e_list"]
                   /\ cl' = [cl EXCEPT ![p] = c]
    /\ UNCHANGED <<upd, windows, db, fs, lastExp>>

\* The enumeration written last record first
Reversed(ps) == [i \in 1..Len(ps) |-> ps[Len(ps) + 1 - i]]
ExportListReversed(p) ==
    /\ pc[p] = "e_list"
    /\ \E fail \in BOOLEAN :
          IF fail
          THEN Fail(p, "store")
          ELSE /\ pc' = [pc EXCEPT ![p] = "e_create"]
               /\ cl' = [cl EXCEPT ![p].prompts = Reversed(ListPrompts(db)),
                                   ![p].count = Len(ListPrompts(db))]
    /\ UNCHANGED <<upd, windows, db, fs, calls, lastExp>>

\* let prompts = db.list_prompts()?; let count = prompts.len();
ExportList(p) ==
    /\ pc[p] = "e_list"
    /\ \E fail \in BOOLEAN :
          IF fail
          THEN Fail(p, "store")
          ELSE /\ pc' = [pc EXCEPT ![p] = "e_create"]
               /\ cl' = [cl EXCEPT ![p].prompts = ListPrompts(db),
                                   ![p].count = Len(ListPrompts(db))]
    /\ UNCHANGED <<upd, windows, db, fs, calls, lastExp>>

\* The temp file opened for writing without truncating the one there
CreateTempKeepingContent(p) ==
    /\ pc[p] = "e_create"
    /\ \E fail \in BOOLEAN :
          IF fail
          THEN Fail(p, "fs") /\ fs' = fs
          ELSE /\ fs' = IF fs.temp.exists THEN fs
                        ELSE [fs EXCEPT !.temp = FileOf(<<>>)]
               /\ pc' = [pc EXCEPT ![p] = "e_header"]
               /\ cl' = [cl EXCEPT ![p].h = [at |-> "temp", off |-> 0]]
    /\ UNCHANGED <<upd, windows, db, calls, lastExp>>

\* File::create(&temp_path)?: creates the temp file or truncates the one there
CreateTemp(p) ==
    /\ pc[p] = "e_create"
    /\ \E fail \in BOOLEAN :
          IF fail
          THEN Fail(p, "fs") /\ fs' = fs
          ELSE /\ fs' = [fs EXCEPT !.temp = FileOf(<<>>)]
               /\ pc' = [pc EXCEPT ![p] = "e_header"]
               /\ cl' = [cl EXCEPT ![p].h = [at |-> "temp", off |-> 0]]
    /\ UNCHANGED <<upd, windows, db, calls, lastExp>>

\* The header written with the header line counted in its count
WriteHeaderCountsItself(p) ==
    /\ pc[p] = "e_header"
    /\ \E getFail \in BOOLEAN :
          LET hdr == SerializeMeta(GetDataVersion(db, getFail, Now),
                                   cl[p].count + 1, Now)
          IN  cl' = [cl EXCEPT ![p].header = hdr, ![p].hasHeader = TRUE,
                               ![p].buf = <<hdr>>,
                               ![p].swallowed = getFail]
    /\ pc' = [pc EXCEPT ![p] = IF cl[p].count = 0 THEN "e_flush" ELSE "e_write"]
    /\ UNCHANGED <<upd, windows, db, fs, calls, lastExp>>

\* The header is built (get_data_version(db), count, Utc::now()) and written
\* to the BufWriter, whose buffer is empty.
WriteHeader(p) ==
    /\ pc[p] = "e_header"
    /\ \E getFail \in BOOLEAN :
          LET hdr == SerializeMeta(GetDataVersion(db, getFail, Now), cl[p].count, Now)
          IN  cl' = [cl EXCEPT ![p].header = hdr, ![p].hasHeader = TRUE,
                               ![p].buf = <<hdr>>,
                               ![p].swallowed = getFail]
    /\ pc' = [pc EXCEPT ![p] = IF cl[p].count = 0 THEN "e_flush" ELSE "e_write"]
    /\ UNCHANGED <<upd, windows, db, fs, calls, lastExp>>

\* One round of `for prompt in &prompts`: the line goes to the BufWriter, which
\* first writes its buffer out when the line does not fit.
WritePrompt(p) ==
    /\ pc[p] = "e_write"
    /\ LET c    == cl[p]
           line == SerializePrompt(c.prompts[c.written + 1])
           next == IF c.written + 1 = c.count THEN "e_flush" ELSE "e_write"
       IN  \/ /\ cl' = [cl EXCEPT ![p].buf = Append(c.buf, line),
                                  ![p].written = c.written + 1]
              /\ pc' = [pc EXCEPT ![p] = next]
              /\ fs' = fs
           \/ /\ c.buf # <<>>
              /\ \E fail \in BOOLEAN :
                    IF fail
                    THEN FailInWriter(p)
                    ELSE /\ fs' = FsWrite(fs, c.h, c.buf)
                         /\ cl' = [cl EXCEPT ![p].buf = <<line>>,
                                             ![p].h.off = c.h.off + Len(c.buf),
                                             ![p].written = c.written + 1]
                         /\ pc' = [pc EXCEPT ![p] = next]
    /\ UNCHANGED <<upd, windows, db, calls, lastExp>>

\* writer.flush()? skipped: the buffer is discarded unwritten
FlushSkipped(p) ==
    /\ pc[p] = "e_flush"
    /\ cl' = [cl EXCEPT ![p].buf = <<>>]
    /\ pc' = [pc EXCEPT ![p] = "e_sync"]
    /\ UNCHANGED <<upd, windows, db, fs, calls, lastExp>>

\* writer.flush()?
Flush(p) ==
    /\ pc[p] = "e_flush"
    /\ \E fail \in BOOLEAN :
          IF fail
          THEN FailInWriter(p)
          ELSE /\ fs' = FsWrite(fs, cl[p].h, cl[p].buf)
               /\ cl' = [cl EXCEPT ![p].buf = <<>>,
                                   ![p].h.off = cl[p].h.off + Len(cl[p].buf)]
               /\ pc' = [pc EXCEPT ![p] = "e_sync"]
    /\ UNCHANGED <<upd, windows, db, calls, lastExp>>

\* writer.into_inner()?.sync_all()?; the File is closed at the end of the block
SyncAll(p) ==
    /\ pc[p] = "e_sync"
    /\ \E fail \in BOOLEAN :
          IF fail
          THEN Fail(p, "fs")
          ELSE /\ cl' = [cl EXCEPT ![p].h = NoHandle]
               /\ pc' = [pc EXCEPT ![p] = IF windows THEN "e_remove" ELSE "e_rename"]
    /\ UNCHANGED <<upd, windows, db, fs, calls, lastExp>>

\* The handles of the other processes after the file at path `from` moved to
\* path `to` ("orphan": it was unlinked).
Moved(c, p, move) ==
    [q \in Procs |->
        IF q # p /\ c[q].h.at \in DOMAIN move
        THEN [c[q] EXCEPT !.h.at = move[c[q].h.at]]
        ELSE c[q]]

\* #[cfg(windows)] if path.exists() { fs::remove_file(path)? } left out
RemoveExistingSkipped(p) ==
    /\ pc[p] = "e_remove"
    /\ pc' = [pc EXCEPT ![p] = "e_rename"]
    /\ UNCHANGED <<upd, windows, db, fs, cl, calls, lastExp>>

\* #[cfg(windows)] if path.exists() { fs::remove_file(path)? }
RemoveExisting(p) ==
    /\ pc[p] = "e_remove"
    /\ IF ~fs.dest.exists
       THEN /\ pc' = [pc EXCEPT ![p] = "e_rename"]
            /\ UNCHANGED <<fs, cl>>
       ELSE \E fail \in BOOLEAN :
               IF fail
               THEN Fail(p, "fs") /\ fs' = fs
               ELSE /\ fs' = [fs EXCEPT !.dest = NoFile]
                    /\ cl' = Moved(cl, p, [dest |-> "orphan"])
                    /\ pc' = [pc EXCEPT ![p] = "e_rename"]
    /\ UNCHANGED <<upd, windows, db, calls, lastExp>>

\* fs::rename(&temp_path, path) with its failure ignored
RenameIgnoringFailure(p) ==
    /\ pc[p] = "e_rename"
    /\ \E fail \in BOOLEAN :
          IF fail \/ ~fs.temp.exists \/ (windows /\ fs.dest.exists)
          THEN /\ fs' = fs
               /\ cl' = [cl EXCEPT ![p].fault = TRUE]
          ELSE /\ fs' = [dest |-> fs.temp, temp |-> NoFile]
               /\ cl' = [Moved(cl, p, [dest |-> "orphan", temp |-> "dest"])
                           EXCEPT ![p].primary = TRUE]
    /\ pc' = [pc EXCEPT ![p] = "e_marker"]
    /\ UNCHANGED <<upd, windows, db, calls, lastExp>>

\* fs::rename(&temp_path, path)?: fails when the temp file is gone, and on
\* Windows when the destination exists.
Rename(p) ==
    /\ pc[p] = "e_rename"
    /\ IF ~fs.temp.exists \/ (windows /\ fs.dest.exists)
       THEN Return(p, cl[p], Err("fs", 0)) /\ fs' = fs
       ELSE \E fail \in BOOLEAN :
               IF fail
               THEN Fail(p, "fs") /\ fs' = fs
               ELSE /\ fs' = [dest |-> fs.temp, temp |-> NoFile]
                    /\ cl' = [Moved(cl, p, [dest |-> "orphan", temp |-> "dest"])
                                EXCEPT ![p].primary = TRUE]
                    /\ pc' = [pc EXCEPT ![p] = "e_marker"]
    /\ UNCHANGED <<upd, windows, db, calls, lastExp>>

\* update_data_version(db)?; Ok(count)
ExportUpdateVersion(p) ==
    /\ pc[p] = "e_marker"
    /\ \E fail \in BOOLEAN :
          IF fail
          THEN Fail(p, "store") /\ UNCHANGED <<db, lastExp>>
          ELSE /\ db' = SetMeta(db, Now)
               /\ Return(p, [cl[p] EXCEPT !.metaWrites = @ + 1,
                                          !.orderOk = @ /\ cl[p].primary],
                         Ok(cl[p].count))
               /\ lastExp' = [valid |-> TRUE, prompts |-> cl[p].prompts,
                              count |-> cl[p].count, file |-> ExportFile(cl[p])]
    /\ UNCHANGED <<upd, windows, fs, calls>>

\* ------------------------------------------------------------------ import
\* One round of `for line in reader.lines()` on a line that was read: what
\* the body does with it, saw being saw_first_non_empty. "blank": skipped;
\* "header": decoded as JsonlMeta and skipped; "record": pushed; "json", "meta",
\* "prompt": the three decode errors.
ClassifyNoHeader(saw, line) ==
    IF line.k = "blank" THEN "blank"
    ELSE IF ~saw /\ ~IsJson(line) THEN "json"
    ELSE IF PromptDecodes(line) THEN "record" ELSE "prompt"
ClassifyHeaderAnywhere(saw, line) ==
    IF line.k = "blank" THEN "blank"
    ELSE IF ~saw /\ ~IsJson(line) THEN "json"
    ELSE IF HasMetaKey(line)
    THEN IF MetaDecodes(line) THEN "header" ELSE "meta"
    ELSE IF PromptDecodes(line) THEN "record" ELSE "prompt"
ClassifyLenient(saw, line) ==
    IF line.k = "blank" THEN "blank"
    ELSE IF ~saw /\ ~IsJson(line) THEN "blank"
    ELSE IF ~saw /\ HasMetaKey(line)
    THEN IF MetaDecodes(line) THEN "header" ELSE "blank"
    ELSE IF PromptDecodes(line) THEN "record" ELSE "blank"
Classify(saw, line) ==
    IF line.k = "blank" THEN "blank"
    ELSE IF ~saw /\ ~IsJson(line) THEN "json"
    ELSE IF ~saw /\ HasMetaKey(line)
    THEN IF MetaDecodes(line) THEN "header" ELSE "meta"
    ELSE IF PromptDecodes(line) THEN "record" ELSE "prompt"

\* line_num when the i-th line of the file is handled: `line_num += 1` comes
\* first in the loop body, before blank lines are skipped. (LineNumNonBlank:
\* the increment placed after the skip.)
LineNumNonBlank(lines, i) == Cardinality({j \in 1..i : lines[j].k # "blank"})
LineNum(lines, i) == i

\* The loop `for line in reader.lines()` from line i on: saw is
\* saw_first_non_empty, ps the prompts vector, hdr whether a header was
\* skipped; readFail is the line whose read fails (0: none).
RECURSIVE Scan(_, _, _, _, _, _)
Scan(lines, i, saw, ps, hdr, readFail) ==
    IF i > Len(lines)
    THEN [res |-> NoRes, prompts |-> ps, sawHeader |-> hdr, fault |-> FALSE]
    ELSE IF i = readFail
    THEN [res |-> Err("fs", LineNum(lines, i)), prompts |-> ps, sawHeader |-> hdr,
          fault |-> TRUE]
    ELSE LET what == Classify(saw, lines[i])
         IN  CASE what = "blank" ->
                    Scan(lines, i + 1, saw, ps, hdr, readFail)
               [] what = "header" ->
                    Scan(lines, i + 1, TRUE, ps, TRUE, readFail)
               [] what = "record" ->
                    Scan(lines, i + 1, TRUE, Append(ps, DecodePrompt(lines[i])),
                         hdr, readFail)
               [] OTHER ->
                    [res |-> Err(what, LineNum(lines, i)), prompts |-> ps,
                     sawHeader |-> hdr, fault |-> FALSE]

DecodeCauses == {"json", "meta", "prompt"}

\* import_jsonl is called on the destination path: File::open(path)?, then
\* the whole scan of the file.
ImportBegin(p) ==
    /\ pc[p] = "idle"
    /\ calls < MaxCalls
    /\ calls' = calls + 1
    /\ LET c == [NoCall EXCEPT !.op = "import", !.dest0 = fs.dest, !.db0 = db]
       IN  IF ~fs.dest.exists
           THEN Return(p, c, Err("fs", 0))
           ELSE \E fail \in BOOLEAN :
                  IF fail
                  THEN Return(p, [c EXCEPT !.fault = TRUE], Err("fs", 0))
                  ELSE \E readFail \in 0..Len(fs.dest.lines) :
                         LET r == Scan(fs.dest.lines, 1, FALSE, <<>>, FALSE, readFail)
                             d == [c EXCEPT !.file = fs.dest.lines,
                                            !.prompts = r.prompts,
                                            !.sawHeader = r.sawHeader,
                                            !.fault = r.fault]
                         IN  IF r.res.st = "err"
                             THEN Return(p, d, r.res)
                             ELSE /\ pc' = [pc EXCEPT ![p] = "i_upsert"]
                                  /\ cl' = [cl EXCEPT ![p] = d]
    /\ UNCHANGED <<upd, windows, db, fs, lastExp>>

\* The records upserted one by one, each in a transaction of its own
ImportBulkUpsertStepwise(p) ==
    /\ pc[p] = "i_upsert"
    /\ LET c == cl[p]
       IN  IF c.written < Len(c.prompts)
           THEN /\ db' = BulkUpsert(db, <<c.prompts[c.written + 1]>>)
                /\ cl' = [cl EXCEPT ![p].written = c.written + 1]
                /\ pc' = pc
           ELSE /\ db' = db
                /\ cl' = [cl EXCEPT ![p].upserts = @ + 1, ![p].primary = TRUE]
                /\ pc' = [pc EXCEPT ![p] = "i_marker"]
    /\ UNCHANGED <<upd, windows, fs, calls, lastExp>>

\* The bulk upsert given the records last line first
ImportBulkUpsertReversed(p) ==
    /\ pc[p] = "i_upsert"
    /\ \E fail \in BOOLEAN :
          IF fail
          THEN Fail(p, "store") /\ db' = db
          ELSE /\ db' = BulkUpsert(db, Reversed(cl[p].prompts))
               /\ cl' = [cl EXCEPT ![p].upserts = @ + 1, ![p].primary = TRUE]
               /\ pc' = [pc EXCEPT ![p] = "i_marker"]
    /\ UNCHANGED <<upd, windows, fs, calls, lastExp>>

\* A delete-all composed with the bulk upsert
ImportBulkUpsertReplacing(p) ==
    /\ pc[p] = "i_upsert"
    /\ \E fail \in BOOLEAN :
          IF fail
          THEN Fail(p, "store") /\ db' = db
          ELSE /\ db' = BulkUpsert([db EXCEPT !.prompts = <<>>], cl[p].prompts)
               /\ cl' = [cl EXCEPT ![p].upserts = @ + 1, ![p].primary = TRUE]
               /\ pc' = [pc EXCEPT ![p] = "i_marker"]
    /\ UNCHANGED <<upd, windows, fs, calls, lastExp>>

\* db.bulk_upsert_prompts(&prompts)?: a failed transaction is rolled back
ImportBulkUpsert(p) ==
    /\ pc[p] = "i_upsert"
    /\ \E fail \in BOOLEAN :
          IF fail
          THEN Fail(p, "store") /\ db' = db
          ELSE /\ db' = BulkUpsert(db, cl[p].prompts)
               /\ cl' = [cl EXCEPT ![p].upserts = @ + 1, ![p].primary = TRUE]
               /\ pc' = [pc EXCEPT ![p] = "i_marker"]
    /\ UNCHANGED <<upd, windows, fs, calls, lastExp>>

\* update_data_version(db)?; Ok(count) with the header line counted in
ImportUpdateVersionCountsHeader(p) ==
    /\ pc[p] = "i_marker"
    /\ \E fail \in BOOLEAN :
          IF fail
          THEN Fail(p, "store") /\ db' = db
          ELSE /\ db' = SetMeta(db, Now)
               /\ Return(p, [cl[p] EXCEPT !.metaWrites = @ + 1,
                                          !.orderOk = @ /\ cl[p].primary],
                         Ok(Len(cl[p].prompts) + IF cl[p].sawHeader THEN 1 ELSE 0))
    /\ UNCHANGED <<upd, windows, fs, calls, lastExp>>

\* update_data_version(db)?; Ok(prompts.len())
ImportUpdateVersion(p) ==
    /\ pc[p] = "i_marker"
    /\ \E fail \in BOOLEAN :
          IF fail
          THEN Fail(p, "store") /\ db' = db
          ELSE /\ db' = SetMeta(db, Now)
               /\ Return(p, [cl[p] EXCEPT !.metaWrites = @ + 1,
                                          !.orderOk = @ /\ cl[p].primary],
                         Ok(Len(cl[p].prompts)))
    /\ UNCHANGED <<upd, windows, fs, calls, lastExp>>

\* ------------------------------------------------------------------ environment
\* The process dies inside a call: what its BufWriter holds is lost.
Crash(p) ==
    /\ Running(p)
    /\ pc' = [pc EXCEPT ![p] = "crashed"]
    /\ cl' = [cl EXCEPT ![p].h = NoHandle, ![p].buf = <<>>]
    /\ UNCHANGED <<upd, windows, db, fs, calls, lastExp>>

\* The caller moves on after a call returned or died.
Finish(p) ==
    /\ pc[p] \in {"done", "crashed"}
    /\ pc' = [pc EXCEPT ![p] = "idle"]
    /\ cl' = [cl EXCEPT ![p] = NoCall]
    /\ UNCHANGED <<upd, windows, db, fs, calls, lastExp>>

AllIdle == \A p \in Procs : pc[p] = "idle"

\* Another command stores a prompt between two calls.
EnvUpsert ==
    /\ AllIdle
    /\ calls < MaxCalls
    /\ \E prm \in Prompts :
          /\ db' = BulkUpsert(db, <<prm>>)
          /\ db' # db
    /\ UNCHANGED <<upd, windows, fs, pc, cl, calls, lastExp>>

\* The caller opens a fresh, empty Database for the next call.
EnvFreshStore ==
    /\ AllIdle
    /\ calls < MaxCalls
    /\ db # EmptyStore
    /\ db' = EmptyStore
    /\ UNCHANGED <<upd, windows, fs, pc, cl, calls, lastExp>>

\* ------------------------------------------------------------------ update check
\* A string is the sequence of its characters.
Digit == ("0" :> 0) @@ ("1" :> 1) @@ ("2" :> 2) @@ ("3" :> 3) @@ ("4" :> 4)
         @@ ("5" :> 5) @@ ("6" :> 6) @@ ("7" :> 7) @@ ("8" :> 8) @@ ("9" :> 9)

Contains(str, ch) == \E i \in 1..Len(str) : str[i] = ch

\* str.trim()
RECURSIVE TrimStart(_)
TrimStart(str) ==
    IF str # <<>> /\ Head(str) = " " THEN TrimStart(Tail(str)) ELSE str
RECURSIVE TrimEnd(_)
TrimEnd(str) ==
    IF str # <<>> /\ str[Len(str)] = " "
    THEN TrimEnd(SubSeq(str, 1, Len(str) - 1)) ELSE str
Trim(str) == TrimEnd(TrimStart(str))

\* str.trim_start_matches(ch)
RECURSIVE TrimStartMatches(_, _)
TrimStartMatches(str, ch) ==
    IF str # <<>> /\ Head(str) = ch THEN TrimStartMatches(Tail(str), ch) ELSE str

\* str.split(sep): the parts between the separators, empty ones included
RECURSIVE SplitFrom(_, _, _)
SplitFrom(str, sep, part) ==
    IF str = <<>> THEN <<part>>
    ELSE IF Head(str) = sep THEN <<part>> \o SplitFrom(Tail(str), sep, <<>>)
    ELSE SplitFrom(Tail(str), sep, Append(part, Head(str)))
Split(str, sep) == SplitFrom(str, sep, <<>>)

\* part.parse::<u64>().unwrap_or(0): an optional + and decimal digits; the
\* numbers of Versions are far below 2^64, where the parse would fail.
RECURSIVE Decimal(_, _)
Decimal(part, acc) ==
    IF part = <<>> THEN acc ELSE Decimal(Tail(part), 10 * acc + Digit[Head(part)])
ParseOrZero(part) ==
    LET digits == IF part # <<>> /\ Head(part) = "+" THEN Tail(part) ELSE part
    IN  IF digits # <<>> /\ \A i \in 1..Len(digits) : digits[i] \in DOMAIN Digit
        THEN Decimal(digits, 0) ELSE 0

\* parts.next().unwrap_or(0)
NextOrZero(parts, i) == IF i <= Len(parts) THEN ParseOrZero(parts[i]) ELSE 0

normalize_version_tag(tag) == TrimStartMatches(Trim(tag), "v")

parse_version(version) ==
    LET cleaned      == normalize_version_tag(version)
        numeric_part == Split(cleaned, "-")[1]
        parts        == Split(numeric_part, ".")
    IN  <<NextOrZero(parts, 1), NextOrZero(parts, 2), NextOrZero(parts, 3),
          Contains(cleaned, "-")>>

\* compare_versions without its two pre-release tests
compare_versions_numeric_only(current, latest) ==
    LET cur == parse_version(current)
        lat == parse_version(latest)
    IN  IF cur[1] # lat[1] THEN (IF cur[1] < lat[1] THEN -1 ELSE 1)
        ELSE IF cur[2] # lat[2] THEN (IF cur[2] < lat[2] THEN -1 ELSE 1)
        ELSE IF cur[3] # lat[3] THEN (IF cur[3] < lat[3] THEN -1 ELSE 1)
        ELSE 0

compare_versions(current, latest) ==
    LET cur == parse_version(current)
        lat == parse_version(latest)
    IN  IF cur[1] # lat[1] THEN (IF cur[1] < lat[1] THEN -1 ELSE 1)
        ELSE IF cur[2] # lat[2] THEN (IF cur[2] < lat[2] THEN -1 ELSE 1)
        ELSE IF cur[3] # lat[3] THEN (IF cur[3] < lat[3] THEN -1 ELSE 1)
        ELSE IF cur[4] /\ ~lat[4] THEN -1
        ELSE IF ~cur[4] /\ lat[4] THEN 1
        ELSE 0

NoUpdate ==
    [current |-> <<>>, tag |-> <<>>, latest_version |-> <<>>,
     comparison |-> 0, update_available |-> FALSE, done |-> FALSE]

\* run(), a release having been fetched: the comparison and update_available
RunUpdate ==
    /\ ~upd.done
    /\ LET latest_version == normalize_version_tag(upd.tag)
           comparison     == compare_versions(upd.current, latest_version)
       IN  upd' = [upd EXCEPT !.latest_version = latest_version,
                              !.comparison = comparison,
                              !.update_available = comparison < 0,
                              !.done = TRUE]
    /\ UNCHANGED <<windows, db, fs, pc, cl, calls, lastExp>>

\* ------------------------------------------------------------------ specifications
NoExport == [valid |-> FALSE, prompts |-> <<>>, count |-> 0, file |-> <<>>]

Main == "main"

Init ==
    /\ windows \in BOOLEAN
    /\ db = EmptyStore
    /\ fs = [dest |-> NoFile, temp |-> NoFile]
    /\ pc = [p \in Procs |-> "idle"]
    /\ cl = [p \in Procs |-> NoCall]
    /\ calls = 0
    /\ lastExp = NoExport
    /\ upd = NoUpdate

Next ==
    \/ ExportBegin(Main)
    \/ ExportList(Main)
    \/ CreateTemp(Main)
    \/ WriteHeader(Main)
    \/ WritePrompt(Main)
    \/ Flush(Main)
    \/ SyncAll(Main)
    \/ RemoveExisting(Main)
    \/ Rename(Main)
    \/ ExportUpdateVersion(Main)
    \/ ImportBegin(Main)
    \/ ImportBulkUpsert(Main)
    \/ ImportUpdateVersion(Main)
    \/ Crash(Main)
    \/ Finish(Main)
    \/ EnvUpsert
    \/ EnvFreshStore

Spec == Init /\ [][Next]_vars

\* Import of an arbitrary file into an arbitrary store: the file at the path
\* is any sequence of at most MaxLines lines, the store any set of prompts with
\* the marker unset or set by an earlier call.
MetaPrompt ==
    Json(SerializePrompt(PB).o
         @@ ("_meta" :> [version |-> 1, count |-> 1,
                         exported_at |-> 1, schema_version |-> SCHEMA_VERSION]))
BadHeader == Json("_meta" :> [version |-> 1])
ImportLines ==
    {Blank, Garbage, SerializeMeta(1, 1, 1), BadHeader, MetaPrompt}
    \cup {SerializePrompt(prm) : prm \in Prompts}
Files == UNION {[1..n -> ImportLines] : n \in 0..MaxLines}
StoreRows ==
    {ps \in UNION {[1..n -> Prompts] : n \in 0..Cardinality(Prompts)} : UniqueIds(ps)}

InitImport ==
    /\ windows = FALSE
    /\ db \in [prompts : StoreRows, meta : {0, 1}]
    /\ fs \in [dest : {FileOf(f) : f \in Files}, temp : {NoFile}]
    /\ pc = [p \in Procs |-> "idle"]
    /\ cl = [p \in Procs |-> NoCall]
    /\ calls = 1
    /\ lastExp = NoExport
    /\ upd = NoUpdate

NextImport ==
    \/ ImportBegin(Main)
    \/ ImportBulkUpsert(Main)
    \/ ImportUpdateVersion(Main)
    \/ Crash(Main)

SpecImport == InitImport /\ [][NextImport]_vars

\* Two processes each call export_jsonl once for the same destination and the
\* same store; their steps interleave in every way. Both compute the same temp
\* path, path.with_extension("jsonl.tmp").
ExportedStores == {<<>>, <<PA>>, <<PB, PA>>}

InitConcurrent ==
    /\ windows \in BOOLEAN
    /\ db \in [prompts : ExportedStores, meta : {0, 1}]
    /\ fs = [dest |-> NoFile, temp |-> NoFile]
    /\ pc = [p \in Procs |-> "idle"]
    /\ cl = [p \in Procs |-> NoCall]
    /\ calls = 0
    /\ lastExp = NoExport
    /\ upd = NoUpdate

NextConcurrent ==
    \E p \in Procs :
        \/ ExportBegin(p)
        \/ ExportList(p)
        \/ CreateTemp(p)
        \/ WriteHeader(p)
        \/ WritePrompt(p)
        \/ Flush(p)
        \/ SyncAll(p)
        \/ RemoveExisting(p)
        \/ Rename(p)
        \/ ExportUpdateVersion(p)

SpecConcurrent == InitConcurrent /\ [][NextConcurrent]_vars

\* The update check of any version against any release tag: each is an
\* optional v, at most MaxParts dot-separated parts, and an optional pre-release
\* suffix.
Components == {<<"1">>, <<"1", "2">>, <<"x">>}
Prefixes == {<<>>, <<"v">>}
Suffixes == {<<>>, <<"-", "b">>}

RECURSIVE Dotted(_)
Dotted(n) ==
    IF n = 0 THEN {<<>>}
    ELSE IF n = 1 THEN Components
    ELSE {d \o <<".">> \o c : d \in Dotted(n - 1), c \in Components}

Versions ==
    {pre \o d \o suf :
        pre \in Prefixes, d \in UNION {Dotted(n) : n \in 0..MaxParts}, suf \in Suffixes}

InitUpdate ==
    /\ windows = FALSE
    /\ db = EmptyStore
    /\ fs = [dest |-> NoFile, temp |-> NoFile]
    /\ pc = [p \in Procs |-> "idle"]
    /\ cl = [p \in Procs |-> NoCall]
    /\ calls = 0
    /\ lastExp = NoExport
    /\ \E current \in Versions, tag \in Versions :
          upd = [NoUpdate EXCEPT !.current = current, !.tag = tag]

NextUpdate == RunUpdate

SpecUpdate == InitUpdate /\ [][NextUpdate]_vars

\* ------------------------------------------------------------------ properties
Call == cl[Main]

\* C1: while and after an export call runs, fails or dies, the destination is
\* absent, or is the file it was before the call, or is the complete new
\* export (header and every record line); it is never a part of a file.
C1_ExportCrashSafe ==
    Call.op = "export" =>
        \/ ~fs.dest.exists
        \/ fs.dest = Call.dest0
        \/ Call.hasHeader /\ fs.dest = FileOf(ExportFile(Call))

\* An export died leaving a part of the new file at the temp path, over a
\* destination that still holds the earlier file.
C1_Witness ==
    /\ Call.op = "export"
    /\ pc[Main] = "crashed"
    /\ Call.dest0.exists
    /\ fs.dest = Call.dest0
    /\ Call.hasHeader
    /\ fs.temp.exists
    /\ Len(fs.temp.lines) > 0
    /\ Len(fs.temp.lines) < Len(ExportFile(Call))
    /\ fs.dest.lines # ExportFile(Call)

\* C2: an import, into an empty store, of the file an export returned Ok for
\* gives a store with exactly the exported records (all fields equal), and
\* returns the count the export returned.
C2_RoundTrip ==
    ( /\ Call.op = "import"
      /\ Call.res.st = "ok"
      /\ Call.db0.prompts = <<>>
      /\ lastExp.valid
      /\ Call.file = lastExp.file )
    => /\ AsSet(db.prompts) = AsSet(lastExp.prompts)
       /\ Len(db.prompts) = Len(lastExp.prompts)
       /\ Call.res.n = lastExp.count

\* Two records were exported and imported into a fresh store.
C2_Witness ==
    /\ Call.op = "import"
    /\ Call.res.st = "ok"
    /\ Call.db0.prompts = <<>>
    /\ lastExp.valid
    /\ Call.file = lastExp.file
    /\ lastExp.count = 2
    /\ PA2 \in AsSet(db.prompts)

\* The lines of a file that are not blank, and the first of them (0: none).
NonBlank(lines) == {i \in 1..Len(lines) : lines[i].k # "blank"}
FirstNonBlank(lines) ==
    IF NonBlank(lines) = {} THEN 0
    ELSE CHOOSE i \in NonBlank(lines) : \A j \in NonBlank(lines) : i <= j

\* Line i of the file does not decode: the first non-blank line is not JSON, or
\* has a top-level _meta that is no header, or is neither header nor prompt;
\* a later line is no prompt.
Undecodable(lines, i) ==
    /\ i \in NonBlank(lines)
    /\ IF i = FirstNonBlank(lines)
       THEN \/ lines[i].k # "json"
            \/ /\ "_meta" \in DOMAIN lines[i].o
               /\ ~(MetaKeys \subseteq DOMAIN lines[i].o["_meta"])
            \/ /\ "_meta" \notin DOMAIN lines[i].o
               /\ ~(PromptKeys \subseteq DOMAIN lines[i].o)
       ELSE \/ lines[i].k # "json"
            \/ ~(PromptKeys \subseteq DOMAIN lines[i].o)

\* C3: an import of a file with a line that does not decode, at any position,
\* has returned an error without a bulk upsert, and the store (records and
\* data_version) is as it was before the call.
C3_PartialContentRejected ==
    ( /\ Call.op = "import"
      /\ \E i \in 1..Len(fs.dest.lines) : Undecodable(fs.dest.lines, i) )
    => /\ pc[Main] = "done"
       /\ Call.res.st = "err"
       /\ Call.upserts = 0
       /\ Call.metaWrites = 0
       /\ db = Call.db0

\* A file of three lines whose middle line does not decode was rejected by a
\* store that held records.
C3_Witness ==
    /\ Call.op = "import"
    /\ Len(fs.dest.lines) = 3
    /\ Undecodable(fs.dest.lines, 2)
    /\ ~Undecodable(fs.dest.lines, 1)
    /\ ~Undecodable(fs.dest.lines, 3)
    /\ Call.res = Err("prompt", 2)
    /\ Call.prompts # <<>>
    /\ db.prompts # <<>>

\* C4: a call that returned Ok wrote data_version exactly once, after its
\* primary effect (the rename, the bulk upsert); a call that returned an error
\* did not write it; the key changes exactly when the call writes it.
C4_MarkerDiscipline ==
    Call.op # "none" =>
        /\ Call.res.st = "ok" => Call.metaWrites = 1 /\ Call.primary
        /\ Call.res.st = "err" => Call.metaWrites = 0
        /\ Call.metaWrites <= 1
        /\ Call.orderOk
        /\ (db.meta # Call.db0.meta) <=> (Call.metaWrites = 1)
        /\ Call.metaWrites = 1 => db.meta = Now

\* The second call of a run, an import, returned Ok and moved the marker the
\* first call had set.
C4_Witness ==
    /\ Call.op = "import"
    /\ Call.res.st = "ok"
    /\ Call.db0.meta = 1
    /\ db.meta = 2
    /\ Call.metaWrites = 1

\* The scan of the file went through (the call did not return a read or decode
\* error).
ScanOk(c) ==
    /\ c.op = "import"
    /\ c.res.cause \notin DecodeCauses \cup {"fs"}

\* C5: the first non-blank line is skipped as a header exactly when it is a JSON
\* object with a top-level key _meta; a first line that is a prompt record is
\* never taken for a header, whatever its content says: it is the first record
\* imported and it is counted.
C5_HeaderDisambiguation ==
    LET f     == Call.file
        first == FirstNonBlank(f)
    IN  /\ ScanOk(Call) =>
              (Call.sawHeader <=>
                  (first # 0 /\ f[first].k = "json" /\ "_meta" \in DOMAIN f[first].o))
        /\ \A prm \in Prompts :
              (Call.op = "import" /\ first # 0 /\ f[first] = SerializePrompt(prm)) =>
                  /\ Call.res.cause \notin {"json", "meta"}
                  /\ ~Call.sawHeader
                  /\ ScanOk(Call) =>
                        /\ Call.prompts[1] = prm
                        /\ Len(Call.prompts) = Cardinality(NonBlank(f))
                  /\ Call.res.st = "ok" => Call.res.n = Cardinality(NonBlank(f))

\* A file whose first line is a record with _meta in its content, followed by
\* a second record, was imported with count 2.
C5_Witness ==
    /\ Call.op = "import"
    /\ Len(Call.file) = 2
    /\ Call.file[1] = SerializePrompt(PA2)
    /\ Call.res = Ok(2)
    /\ ~Call.sawHeader
    /\ PA2 \in AsSet(db.prompts)

\* The lines of a file that import decodes as prompt records: the non-blank
\* lines but a first one with a top-level _meta.
RecordLines(f) ==
    {i \in NonBlank(f) :
        ~(i = FirstNonBlank(f) /\ f[i].k = "json" /\ "_meta" \in DOMAIN f[i].o)}
\* The record of the file for an id: the one of the last line with that id.
FileRecord(f, id) ==
    LET at == {i \in RecordLines(f) : DecodePrompt(f[i]).id = id}
    IN  DecodePrompt(f[CHOOSE i \in at : \A j \in at : j <= i])
FileIds(f) == {DecodePrompt(f[i]).id : i \in RecordLines(f)}
Row(ps, id) == CHOOSE r \in AsSet(ps) : r.id = id

\* C6: after an import that returned Ok the records of the store are exactly
\* the records of the file, whatever the store held before.
C6_ImportReplacesStore ==
    (Call.op = "import" /\ Call.res.st = "ok") =>
        Ids(db.prompts) = FileIds(Call.file)

C8_ImportStoreErrorAtomic ==
    (Call.op = "import" /\ Call.res.st = "err" /\ Call.res.cause = "store") =>
        db.prompts = Call.db0.prompts

\* C9: an export that returned an error of the store (list_prompts, the marker
\* write) did not rename, and the destination is the file it was before.
C9_ExportStoreErrorLeavesFile ==
    (Call.op = "export" /\ Call.res.st = "err" /\ Call.res.cause = "store") =>
        /\ ~Call.primary
        /\ fs.dest = Call.dest0

\* C10: an export fails only by a failure of the filesystem or the store, never
\* because the destination is there already; when it returns Ok the destination
\* is the header of this call followed by one line per record the store held
\* when the call began, and nothing of the file that was there before.
C10_IdempotentOverwrite ==
    (Call.op = "export" /\ pc[Main] = "done") =>
        /\ Call.res.st = "err" => Call.fault
        /\ Call.res.st = "ok" =>
              /\ fs.dest.exists
              /\ Len(fs.dest.lines) = 1 + Len(Call.db0.prompts)
              /\ fs.dest.lines[1] = Call.header
              /\ "_meta" \in DOMAIN fs.dest.lines[1].o
              /\ fs.dest.lines[1].o["_meta"].count = Len(Call.db0.prompts)
              /\ \A i \in 1..Len(Call.db0.prompts) :
                    fs.dest.lines[i + 1] = SerializePrompt(Call.db0.prompts[i])
              /\ Call.res.n = Len(Call.db0.prompts)

\* The second export of a run returned Ok over the file of the first, which
\* held a record the store no longer holds.
C10_Witness ==
    /\ Call.op = "export"
    /\ Call.res.st = "ok"
    /\ calls = 2
    /\ Call.dest0.exists
    /\ Len(Call.dest0.lines) = 2
    /\ Call.dest0.lines[2] = SerializePrompt(PA)
    /\ Call.db0.prompts = <<PB>>
    /\ fs.dest.lines = <<Call.header, SerializePrompt(PB)>>

\* C11: the file an export has put at the destination starts with a _meta
\* header with all its fields, followed by one prompt line per record of the
\* snapshot and nothing else; the header's count is the number of record lines,
\* and it is the count an export that returns Ok returns.
C11_ExportFileShape ==
    (Call.op = "export" /\ Call.primary) =>
        LET f == fs.dest.lines
        IN  /\ fs.dest.exists
            /\ Len(f) >= 1
            /\ f[1].k = "json"
            /\ DOMAIN f[1].o = {"_meta"}
            /\ DOMAIN f[1].o["_meta"] = MetaKeys
            /\ f[1].o["_meta"].schema_version = SCHEMA_VERSION
            /\ f[1].o["_meta"].exported_at = Now
            /\ \A i \in 2..Len(f) :
                  /\ f[i].k = "json"
                  /\ "_meta" \notin DOMAIN f[i].o
                  /\ PromptKeys \subseteq DOMAIN f[i].o
            /\ Len(f) - 1 = Len(ListPrompts(Call.db0))
            /\ f[1].o["_meta"].count = Len(f) - 1
            /\ Call.res.st = "ok" => Call.res.n = Len(f) - 1

\* An export of two records returned Ok(2) with a header of count 2 and two
\* record lines.
C11_Witness ==
    /\ Call.op = "export"
    /\ Call.res = Ok(2)
    /\ Len(fs.dest.lines) = 3
    /\ fs.dest.lines[1].o["_meta"].count = 2

\* C12: an import that returns Ok returns the number of non-blank lines it
\* decoded as prompt records: blank lines and a header line are not counted.
C12_ImportCount ==
    (Call.op = "import" /\ Call.res.st = "ok") =>
        /\ Call.res.n = Cardinality(RecordLines(Call.file))
        /\ Call.res.n = Cardinality(NonBlank(Call.file))
                          - (IF Call.sawHeader THEN 1 ELSE 0)
        /\ Call.res.n = Len(Call.prompts)

\* A file of a blank line, a header and a record was imported with count 1.
C12_Witness ==
    /\ Call.op = "import"
    /\ Len(Call.file) = 3
    /\ Call.file[1] = Blank
    /\ Call.file[2] = SerializeMeta(1, 1, 1)
    /\ Call.file[3] = SerializePrompt(PA)
    /\ Call.res = Ok(1)

\* The only non-blank line of the file is a JSON object whose _meta holds all
\* the header fields.
MetaOnly(f) ==
    /\ Cardinality(NonBlank(f)) = 1
    /\ LET line == f[FirstNonBlank(f)]
       IN  /\ line.k = "json"
           /\ "_meta" \in DOMAIN line.o
           /\ MetaKeys \subseteq DOMAIN line.o["_meta"]

C14_LineNumberedDecodeErrors ==
    (Call.op = "import" /\ Call.res.cause \in DecodeCauses) =>
        LET f   == Call.file
            bad == {i \in 1..Len(f) : Undecodable(f, i)}
            n   == Call.res.line
        IN  /\ pc[Main] = "done"
            /\ Call.res.st = "err"
            /\ n \in bad
            /\ \A i \in bad : n <= i
            /\ Call.res.cause = "json" <=>
                  (n = FirstNonBlank(f) /\ f[n].k # "json")
            /\ Call.res.cause = "meta" <=>
                  (n = FirstNonBlank(f) /\ f[n].k = "json"
                     /\ "_meta" \in DOMAIN f[n].o)
            /\ Call.res.cause = "prompt" =>
                  ~(f[n].k = "json" /\ PromptKeys \subseteq DOMAIN f[n].o)

\* A file of a blank line, a record and a line of text was rejected with the
\* error at line 3.
C14_Witness ==
    /\ Call.op = "import"
    /\ Call.file = <<Blank, SerializePrompt(PA), Garbage>>
    /\ Call.res = Err("prompt", 3)

\* C15: a call in which a Record Store call or a filesystem call failed has
\* returned an error.
C15_NoSwallowedErrors ==
    (pc[Main] = "done" /\ (Call.fault \/ Call.swallowed)) =>
        Call.res.st = "err"

Kth(S, k) == CHOOSE i \in S : Cardinality({j \in S : j <= i}) = k
RecordSeq(f) ==
    [k \in 1..Cardinality(RecordLines(f)) |-> DecodePrompt(f[Kth(RecordLines(f), k)])]

\* C17: at most one line is skipped as a header, and only the first non-blank
\* one; every other non-blank line is decoded as a prompt record, also one with
\* a top-level _meta, and ends the import with an error when it is no prompt
\* record; a file without a header is accepted.
C17_SingleHeaderPosition ==
    Call.op = "import" =>
        LET f     == Call.file
            first == FirstNonBlank(f)
        IN  /\ \A i \in NonBlank(f) \ {first} :
                  ~(f[i].k = "json" /\ PromptKeys \subseteq DOMAIN f[i].o) =>
                      /\ Call.res.st = "err"
                      /\ Call.res.cause \in DecodeCauses \cup {"fs"}
                      /\ Call.res.line <= i
            /\ ScanOk(Call) =>
                  /\ Call.prompts = RecordSeq(f)
                  /\ Cardinality(NonBlank(f)) - Len(Call.prompts) <= 1
                  /\ Call.sawHeader <=> (NonBlank(f) \ RecordLines(f) = {first})
            /\ ( /\ first # 0
                 /\ f[first].k = "json"
                 /\ "_meta" \notin DOMAIN f[first].o
                 /\ \A i \in 1..Len(f) : ~Undecodable(f, i) )
               => /\ Call.res.cause \notin DecodeCauses
                  /\ ~Call.sawHeader

\* A file of a header followed by an object with both _meta and the prompt
\* fields was imported: the second line is a record of the store.
C17_Witness ==
    /\ Call.op = "import"
    /\ Call.file = <<SerializeMeta(1, 1, 1), MetaPrompt>>
    /\ Call.res = Ok(1)
    /\ Call.db0.prompts = <<>>
    /\ db.prompts = <<PB>>

\* C18: an import commits at most one bulk upsert, and exactly one when it
\* returns Ok; until then the store is as it was before the call; the upsert
\* comes after the whole file decoded and is given the records of the file in
\* the order of their lines.
C18_ImportOrdering ==
    Call.op = "import" =>
        /\ Call.upserts <= 1
        /\ Call.upserts = 0 => db = Call.db0
        /\ Call.res.st = "ok" => Call.upserts = 1
        /\ Call.upserts = 1 =>
              /\ ScanOk(Call)
              /\ \A i \in 1..Len(Call.file) : ~Undecodable(Call.file, i)
              /\ db.prompts = UpsertAll(Call.db0.prompts, RecordSeq(Call.file))

\* A file with two records of the same id, and one of another, was imported
\* into an empty store: the later line of the two won.
C18_Witness ==
    /\ Call.op = "import"
    /\ Call.file = <<SerializePrompt(PB), SerializePrompt(PA), SerializePrompt(PA2)>>
    /\ Call.upserts = 1
    /\ Call.db0.prompts = <<>>
    /\ db.prompts = <<PB, PA2>>

\* C19: in the file an export has put at the destination, line i+1 decodes to
\* record i of the enumeration list_prompts returned for the store the export
\* started with: no record is moved, written twice or left out.
C19_ExportOrder ==
    (Call.op = "export" /\ Call.primary) =>
        LET f    == fs.dest.lines
            rows == ListPrompts(Call.db0)
        IN  /\ Len(f) = 1 + Len(rows)
            /\ \A i \in 1..Len(rows) :
                  /\ PromptDecodes(f[i + 1])
                  /\ DecodePrompt(f[i + 1]) = rows[i]
            /\ \A i, j \in 2..Len(f) : f[i] = f[j] => i = j

\* A store enumerated as b, a was exported: the file holds b, then a.
C19_Witness ==
    /\ Call.op = "export"
    /\ Call.primary
    /\ ListPrompts(Call.db0) = <<PB, PA>>
    /\ Len(fs.dest.lines) = 3
    /\ DecodePrompt(fs.dest.lines[2]) = PB
    /\ DecodePrompt(fs.dest.lines[3]) = PA

\* C20: the version of the header of an export is the data_version key of the
\* store the export started with whenever that key is set, and a call that made
\* no set_meta leaves the key as it was.
C20_HeaderIsPreExportMarker ==
    (Call.op = "export" /\ Call.hasHeader) =>
        /\ Call.db0.meta # 0 =>
              Call.header.o["_meta"].version = Call.db0.meta
        /\ Call.metaWrites = 0 => db.meta = Call.db0.meta

\* C21: an export that failed or was interrupted between creating the temp file
\* and renaming it leaves the temp file in place; an export that renamed its
\* temp file has put exactly its own header and records at the destination,
\* whatever an earlier export left at the temp path, and no file is left at the
\* temp path; an export returns Ok only after that rename.
C21_TempFileLifecycle ==
    Call.op = "export" =>
        /\ (Call.hasHeader /\ ~Call.primary /\ pc[Main] \in {"done", "crashed"})
              => fs.temp.exists
        /\ Call.primary =>
              /\ fs.dest = FileOf(ExportFile(Call))
              /\ ~fs.temp.exists
        /\ Call.res.st = "ok" => Call.primary

\* An export started with a three-line temp file left by an earlier export and
\* returned Ok: the destination holds its header alone and the temp path is free.
C21_Witness ==
    /\ Call.op = "export"
    /\ Call.temp0.exists
    /\ Len(Call.temp0.lines) = 3
    /\ Call.res = Ok(0)
    /\ fs.dest.lines = <<Call.header>>
    /\ ~fs.temp.exists

\* C22: while two exports to one destination interleave, a destination that
\* exists is the complete file of one of the two, and an export in which no
\* filesystem or store call was made to fail returns Ok.
C22_ConcurrentExportsSafe ==
    /\ fs.dest.exists =>
          \E p \in Procs :
              /\ cl[p].op = "export"
              /\ cl[p].hasHeader
              /\ fs.dest = FileOf(ExportFile(cl[p]))
    /\ \A p \in Procs :
          (pc[p] = "done" /\ ~cl[p].fault) => cl[p].res.st = "ok"

\* The order of two triples (major, minor, patch), first component first.
TripleLess(a, b) ==
    \/ a[1] < b[1]
    \/ a[1] = b[1] /\ a[2] < b[2]
    \/ a[1] = b[1] /\ a[2] = b[2] /\ a[3] < b[3]

\* C23: the comparison of the running version with the latest release is -1, 0
\* or 1, decided by the order of the triples (major, minor, patch); with equal
\* triples a version containing '-' is below one that does not and two of the
\* same kind compare 0; the comparison with its arguments exchanged is the
\* negated result; an update is reported exactly when the result is -1.
C23_VersionOrdering ==
    upd.done =>
        LET cur == parse_version(upd.current)
            lat == parse_version(upd.latest_version)
            res == upd.comparison
        IN  /\ res \in {-1, 0, 1}
            /\ cur[4] <=> Contains(upd.current, "-")
            /\ lat[4] <=> Contains(upd.latest_version, "-")
            /\ TripleLess(cur, lat) => res = -1
            /\ TripleLess(lat, cur) => res = 1
            /\ (~TripleLess(cur, lat) /\ ~TripleLess(lat, cur)) =>
                  /\ (cur[4] /\ ~lat[4]) => res = -1
                  /\ (~cur[4] /\ lat[4]) => res = 1
                  /\ (cur[4] <=> lat[4]) => res = 0
            /\ res = -compare_versions(upd.latest_version, upd.current)
            /\ upd.update_available <=> res = -1

\* Version 1.12.1-b was compared with the release tagged v1.12.1: the
\* pre-release is older and an update is reported.
C23_Witness ==
    /\ upd.done
    /\ upd.current = <<"1", ".", "1", "2", ".", "1", "-", "b">>
    /\ upd.tag = <<"v", "1", ".", "1", "2", ".", "1">>
    /\ upd.comparison = -1
    /\ upd.update_available

====
